---- MODULE Spec2Model ----
(***************************************************************************)
(* The skip list of data_structures/skip_list2 (skip_list.rs) and the      *)
(* block arena its nodes live in (arena.rs), as a state machine.           *)
(*                                                                         *)
(* Memory is word addressed: mem maps the byte address of an 8-byte word   *)
(* to its content, and a word nobody wrote reads 0 (slabs are vec![0; n]). *)
(* A node pointer is the address of the node: key at +0, value at +8,      *)
(* tower[l] at +16+8*l  (#[repr(C)], K = V = usize as in the tests).       *)
(* Every thread runs its call one shared-memory access at a time.          *)
(***************************************************************************)
EXTENDS Integers, Sequences, FiniteSets, TLC

\* ------------------------------------------------------------ constants

\* arena.rs:60  size_of::<u64>()
ITEM_SIZE == 8
\* arena.rs:61
BLOCK_SIZE == 4096 \div ITEM_SIZE
\* arena.rs:62
NO_BLOCK_LIMIT == (BLOCK_SIZE \div 4) * ITEM_SIZE
\* skip_list.rs:15
MAX_HEIGHT == 20
\* null_mut()
NULL == 0
\* NonNull::<u8>::dangling(): the alignment of u8 taken as an address
DANGLING == 1
\* size_of::<AtomicPtr<Node>>(), size_of::<usize>()
PTR_SIZE == 8
\* RefCell's borrow flag when nobody borrows (UNUSED)
UNUSED == 0
\* usize arithmetic wraps modulo the address space; 24 bits stand for the 64
USIZE == 2 ^ 24

\* ------------------------------------------------------------ bounds

\* keys are 0 .. MaxKey-1
MaxKey == 3
\* insert calls per thread
MaxInserts == 3
\* random_height() is drawn from 1 .. MaxH  (MaxH <= MAX_HEIGHT)
MaxH == 2
\* direct BlockArena::alloc / memory_usage calls per thread
MaxAllocs == 3
\* calls on one iterator since its last seek
MaxIterOps == 4
\* calls per thread when two threads run
MaxConcCalls == 2
\* alloc calls of the client that fills a standard slab
MaxFillAllocs == 5

Threads == {1, 2}
Keys == 0 .. (MaxKey - 1)
Heights == 1 .. (IF MaxH < MAX_HEIGHT THEN MaxH ELSE MAX_HEIGHT)
\* layouts the arena is asked for directly: (size, align), align a power of two
Sizes == {8, 20, 1000, 1030, 2048}
Aligns == {1, 8, 16}
\* and the layouts two racing threads ask for
ConcSizes == {8, 2048}
ConcAligns == {8, 16}
\* and the layouts of a client that fills a slab and then asks for a page boundary
FillSizes == {900, 1000}
FillAligns == {8, 4096}
\* where the host heap places a fresh Vec<u64>: 8-aligned, nothing more is promised
HeapStart == 2 * 4096
HeapGaps == {0, 8}

VARIABLES
    mem,            \* the words of the slabs that were written
    mems,           \* BlockArenaInner.mems: the slabs, [base, len] in bytes
    ptr,            \* BlockArenaInner.ptr: the bump cursor
    remaining_size, \* BlockArenaInner.remaining_size
    memory_usage,   \* BlockArenaInner.memory_usage (atomic)
    borrow,         \* the RefCell's borrow flag
    heap_top,       \* host heap: first address never handed out
    head,           \* SkipList.head (NULL before SkipList::new)
    height,         \* SkipList.height (atomic)
    th,             \* per thread: program counter and locals
    it,             \* the iterator: SkipListIter.cur and the calls made on it
    allocs,         \* history: the ranges BlockArena::alloc returned
    reads,          \* history: the values BlockArena::memory_usage returned
    inserted,       \* history: the insert calls that returned
    da_mems,        \* DefaultAllocatorInner.mems: the (ptr, layout) it handed out
    mem_alloc       \* DefaultAllocatorInner.mem_alloc (atomic)

vars == <<mem, mems, ptr, remaining_size, memory_usage, borrow, heap_top,
          head, height, th, it, allocs, reads, inserted, da_mems, mem_alloc>>

trackVars == <<da_mems, mem_alloc>>

arenaVars == <<mems, ptr, remaining_size, memory_usage, borrow, heap_top>>
listVars == <<mem, head, height>>

\* ------------------------------------------------------------ memory

Rd(m, a) == IF a \in DOMAIN m THEN m[a] ELSE 0

Wr(m, a, v) ==
    IF v = 0 THEN [x \in (DOMAIN m) \ {a} |-> m[x]]
    ELSE [x \in (DOMAIN m) \cup {a} |-> IF x = a THEN v ELSE m[x]]

\* ------------------------------------------------------------ thread locals

NoArray == [l \in 0 .. MAX_HEIGHT |-> NULL]

IdleLocals ==
    [pc |-> "idle", caller |-> "none",
     size |-> 0, align |-> 0, aligned_ptr |-> 0, need |-> 0, b |-> 0, result |-> 0,
     path |-> "none",
     key |-> 0, value |-> 0, prev_height |-> 0, prev |-> NoArray, next |-> NoArray,
     height |-> 0, new_node_ptr |-> NULL, level |-> 0, cur |-> NULL, site |-> "none",
     destroyed |-> << >>, published |-> FALSE,
     calls |-> 0]

\* a call returned (or never started): the locals are gone, the call count stays
Idle(t) == [IdleLocals EXCEPT !.calls = th[t].calls]
\* a call panicked: the thread is gone; which call it was, and its key, are kept
Panicked(t) ==
    [Idle(t) EXCEPT !.pc = "panicked", !.caller = th[t].caller, !.key = th[t].key]

Quiescent == \A t \in Threads : th[t].pc \in {"idle", "panicked"}

\* ------------------------------------------------------------ host heap

\* vec![0; n] of u64: a zeroed buffer of len bytes at an 8-aligned address the
\* host heap picks; an empty Vec allocates nothing and points at dangling (8).
VecBases(len) ==
    IF len = 0 THEN {ITEM_SIZE} ELSE {heap_top + g : g \in HeapGaps}

HeapAfter(base, len) == IF len = 0 THEN heap_top ELSE base + len

\* ------------------------------------------------------------ block arena

\* align_up moving the pointer down to the boundary below instead of up
align_up_rounds_down(p, align) ==
    LET slop == (align - (p % align)) % align
    IN  [slop |-> slop, aligned |-> p - (p % align)]

\* align_up: ptr.align_offset(align) for a byte pointer, and the pointer moved up
align_up(p, align) ==
    LET slop == (align - (p % align)) % align
    IN  [slop |-> slop, aligned |-> (p + slop) % USIZE]

\* alloc_new_block counting the slab in items, the `* ITEM_SIZE` forgotten
alloc_new_block_items(byte_size) == (byte_size + ITEM_SIZE - 1) \div ITEM_SIZE

\* alloc_new_block: the byte length of the dedicated slab
alloc_new_block_len(byte_size) ==
    ((byte_size + ITEM_SIZE - 1) \div ITEM_SIZE) * ITEM_SIZE

\* RefMut / Ref dropped: borrow.set(borrow.get() + 1) / (- 1)
ReleasedMut == borrow + 1
ReleasedRef == borrow - 1

\* a client calls BlockArena::alloc(layout)
AllocCall(t, size, align) ==
    /\ th[t].pc = "idle"
    /\ th[t].calls < MaxAllocs
    /\ th' = [th EXCEPT ![t] = [IdleLocals EXCEPT
                !.pc = "borrow_mut", !.caller = "alloc",
                !.size = size, !.align = align, !.calls = th[t].calls + 1]]
    /\ UNCHANGED <<trackVars, arenaVars, listVars, it, allocs, reads, inserted>>

\* RefCell::borrow_mut, the test of the flag: BorrowMutError panics
BorrowMut(t) ==
    /\ th[t].pc = "borrow_mut"
    /\ th' = [th EXCEPT ![t] =
                IF borrow = UNUSED THEN [th[t] EXCEPT !.pc = "borrow_mut_set"]
                ELSE Panicked(t)]
    /\ UNCHANGED <<trackVars, arenaVars, listVars, it, allocs, reads, inserted>>

\* RefCell::borrow_mut, the write of the flag: borrow.set(UNUSED - 1)
BorrowMutSet(t) ==
    /\ th[t].pc = "borrow_mut_set"
    /\ borrow' = UNUSED - 1
    /\ th' = [th EXCEPT ![t].pc = "alloc"]
    /\ UNCHANGED <<trackVars, mems, ptr, remaining_size, memory_usage, heap_top,
                   listVars, it, allocs, reads, inserted>>

\* BlockArenaInner::alloc whose alloc_new_block opens the dedicated slab the way
\* reload_block opens a standard one: the cursor and the remaining bytes move
InnerAlloc_big_opens(t) ==
    /\ th[t].pc = "alloc"
    /\ LET a == align_up(ptr, th[t].align)
           need == a.slop + th[t].size
           len == alloc_new_block_len(th[t].size)
       IN  IF need > NO_BLOCK_LIMIT
           THEN \E base \in VecBases(len) :
                  /\ mems' = Append(mems, [base |-> base, len |-> len])
                  /\ memory_usage' = memory_usage + len
                  /\ heap_top' = HeapAfter(base, len)
                  /\ ptr' = base
                  /\ remaining_size' = len
                  /\ th' = [th EXCEPT ![t].pc = "drop_refmut", ![t].result = base,
                                      ![t].path = "big"]
           ELSE /\ th' = [th EXCEPT
                            ![t].pc = IF need > remaining_size THEN "reload" ELSE "bump",
                            ![t].aligned_ptr = a.aligned, ![t].need = need,
                            ![t].path = "bump"]
                /\ UNCHANGED <<mems, memory_usage, heap_top, ptr, remaining_size>>
    /\ UNCHANGED <<trackVars, borrow, listVars, it, allocs, reads, inserted>>

\* BlockArenaInner::alloc up to the choice of path; the big path, alloc_new_block,
\* is taken whole
InnerAlloc(t) ==
    /\ th[t].pc = "alloc"
    /\ LET a == align_up(ptr, th[t].align)
           need == a.slop + th[t].size
           len == alloc_new_block_len(th[t].size)
       IN  IF need > NO_BLOCK_LIMIT
           THEN \E base \in VecBases(len) :
                  /\ mems' = Append(mems, [base |-> base, len |-> len])
                  /\ memory_usage' = memory_usage + len
                  /\ heap_top' = HeapAfter(base, len)
                  /\ th' = [th EXCEPT ![t].pc = "drop_refmut", ![t].result = base,
                                      ![t].path = "big"]
                  /\ UNCHANGED <<ptr, remaining_size>>
           ELSE /\ th' = [th EXCEPT
                            ![t].pc = IF need > remaining_size THEN "reload" ELSE "bump",
                            ![t].aligned_ptr = a.aligned, ![t].need = need,
                            ![t].path = "bump"]
                /\ UNCHANGED <<mems, memory_usage, heap_top, ptr, remaining_size>>
    /\ UNCHANGED <<trackVars, borrow, listVars, it, allocs, reads, inserted>>

\* reload_block, then slop and need again from the fresh slab, then the assertion
ReloadBlock(t) ==
    /\ th[t].pc = "reload"
    /\ LET cap == BLOCK_SIZE * ITEM_SIZE
       IN  \E base \in VecBases(cap) :
             LET a == align_up(base, th[t].align)
                 need == a.slop + th[t].size
             IN  /\ mems' = Append(mems, [base |-> base, len |-> cap])
                 /\ ptr' = base
                 /\ remaining_size' = cap
                 /\ memory_usage' = memory_usage + cap
                 /\ heap_top' = HeapAfter(base, cap)
                 /\ IF need <= cap
                    THEN /\ th' = [th EXCEPT ![t].pc = "bump",
                                     ![t].aligned_ptr = a.aligned, ![t].need = need,
                                     ![t].path = "fresh"]
                         /\ UNCHANGED borrow
                    ELSE /\ th' = [th EXCEPT ![t] = Panicked(t)]
                         /\ borrow' = ReleasedMut
    /\ UNCHANGED <<trackVars, listVars, it, allocs, reads, inserted>>

\* the cursor moves: self.ptr = new_tail; self.remaining_size -= need.  The
\* subtraction of a usize below zero panics (overflow checks on) or wraps (off).
Bump(t) ==
    /\ th[t].pc = "bump"
    /\ ptr' = (th[t].aligned_ptr + th[t].size) % USIZE
    /\ \E overflow \in (IF th[t].need <= remaining_size THEN {"none"}
                        ELSE {"panic", "wrap"}) :
         IF overflow = "panic"
         THEN /\ th' = [th EXCEPT ![t] = Panicked(t)]
              /\ borrow' = ReleasedMut
              /\ UNCHANGED remaining_size
         ELSE /\ remaining_size' = (remaining_size - th[t].need) % USIZE
              /\ th' = [th EXCEPT ![t].pc = "drop_refmut",
                                  ![t].result = th[t].aligned_ptr]
              /\ UNCHANGED borrow
    /\ UNCHANGED <<trackVars, mems, memory_usage, heap_top, listVars, it, allocs, reads, inserted>>

\* a client calls BlockArena::memory_usage()
MemoryUsageCall(t) ==
    /\ th[t].pc = "idle"
    /\ th[t].calls < MaxAllocs
    /\ th' = [th EXCEPT ![t] = [IdleLocals EXCEPT
                !.pc = "borrow", !.caller = "memory_usage",
                !.calls = th[t].calls + 1]]
    /\ UNCHANGED <<trackVars, arenaVars, listVars, it, allocs, reads, inserted>>

\* RefCell::borrow, the test of the flag: a writer's flag (< 0) panics
Borrow(t) ==
    /\ th[t].pc = "borrow"
    /\ th' = [th EXCEPT ![t] =
                IF borrow + 1 > 0 THEN [th[t] EXCEPT !.pc = "borrow_set", !.b = borrow + 1]
                ELSE Panicked(t)]
    /\ UNCHANGED <<trackVars, arenaVars, listVars, it, allocs, reads, inserted>>

\* RefCell::borrow, the write of the flag: borrow.set(b)
BorrowSet(t) ==
    /\ th[t].pc = "borrow_set"
    /\ borrow' = th[t].b
    /\ th' = [th EXCEPT ![t].pc = "load_usage"]
    /\ UNCHANGED <<trackVars, mems, ptr, remaining_size, memory_usage, heap_top,
                   listVars, it, allocs, reads, inserted>>

\* BlockArenaInner::memory_usage: the atomic load
LoadUsage(t) ==
    /\ th[t].pc = "load_usage"
    /\ th' = [th EXCEPT ![t].pc = "drop_ref", ![t].result = memory_usage]
    /\ UNCHANGED <<trackVars, arenaVars, listVars, it, allocs, reads, inserted>>

\* the Ref is dropped and memory_usage returns
DropRef(t) ==
    /\ th[t].pc = "drop_ref"
    /\ borrow' = ReleasedRef
    /\ reads' = Append(reads, [t |-> t, value |-> th[t].result])
    /\ th' = [th EXCEPT ![t] = Idle(t)]
    /\ UNCHANGED <<trackVars, mems, ptr, remaining_size, memory_usage, heap_top,
                   listVars, it, allocs, inserted>>

\* the RefMut is dropped and BlockArena::alloc returns to its caller
DropRefMut(t) ==
    /\ th[t].pc = "drop_refmut"
    /\ borrow' = ReleasedMut
    /\ allocs' = Append(allocs, [t |-> t, ptr |-> th[t].result, size |-> th[t].size,
                                 align |-> th[t].align, path |-> th[t].path])
    /\ th' = [th EXCEPT ![t] =
                IF th[t].caller = "alloc" THEN Idle(t)
                ELSE [th[t] EXCEPT !.pc = "new_in", !.new_node_ptr = th[t].result]]
    /\ UNCHANGED <<trackVars, mems, ptr, remaining_size, memory_usage, heap_top,
                   listVars, it, reads, inserted>>

\* ------------------------------------------------------------ tracking allocator

\* DefaultAllocatorInner::allocate, line 38: std::alloc::alloc(layout), a block of
\* the host heap that no one else holds, aligned to layout.align().  The thread is
\* at its call of allocate (pc "borrow_mut", where BlockArena::alloc would begin).
StdAlloc(t) ==
    /\ th[t].pc = "borrow_mut"
    /\ \E g \in HeapGaps :
         LET base == align_up(heap_top + g, th[t].align).aligned
         IN  /\ heap_top' = base + th[t].size
             /\ th' = [th EXCEPT ![t].pc = "lock_push", ![t].result = base]
    /\ UNCHANGED <<mems, ptr, remaining_size, memory_usage, borrow, trackVars,
                   listVars, it, allocs, reads, inserted>>

\* line 39: self.mems.lock().unwrap().push((ptr, layout)), whole under the mutex
LockPush(t) ==
    /\ th[t].pc = "lock_push"
    /\ da_mems' = Append(da_mems, [ptr |-> th[t].result, size |-> th[t].size,
                                   align |-> th[t].align])
    /\ th' = [th EXCEPT ![t].pc = "fetch_add"]
    /\ UNCHANGED <<arenaVars, mem_alloc, listVars, it, allocs, reads, inserted>>

\* lines 40-42: mem_alloc.fetch_add(layout.size()), and the pointer is returned
FetchAdd(t) ==
    /\ th[t].pc = "fetch_add"
    /\ mem_alloc' = mem_alloc + th[t].size
    /\ th' = [th EXCEPT ![t] = [th[t] EXCEPT !.pc = "new_in",
                                             !.new_node_ptr = th[t].result]]
    /\ UNCHANGED <<arenaVars, da_mems, listVars, it, allocs, reads, inserted>>

\* ------------------------------------------------------------ nodes

\* size_of::<Node<usize, usize>>(): key, value and MAX_HEIGHT tower slots
NODE_SIZE == 2 * PTR_SIZE + MAX_HEIGHT * PTR_SIZE
\* align_of::<Node<usize, usize>>()
NODE_ALIGN == PTR_SIZE

KeyAt(m, p) == Rd(m, p)
ValueAt(m, p) == Rd(m, p + PTR_SIZE)
TowerSlot(p, level) == p + 2 * PTR_SIZE + PTR_SIZE * level

\* Node::get_next
get_next(m, p, level) == Rd(m, TowerSlot(p, level))

\* Node::get_layout: the size of a node truncated to `h` tower slots
get_layout_size(h) == NODE_SIZE - PTR_SIZE * (MAX_HEIGHT - h)

\* Node::new_in after the allocation: key and value written, h tower slots zeroed
WriteNode(m, p, key, value, h) ==
    LET slots == {TowerSlot(p, l) : l \in 0 .. (h - 1)}
        keep == (DOMAIN m) \ (slots \cup {p, p + PTR_SIZE})
        dom == keep \cup (IF key = 0 THEN {} ELSE {p})
                    \cup (IF value = 0 THEN {} ELSE {p + PTR_SIZE})
    IN  [x \in dom |-> IF x = p THEN key
                       ELSE IF x = p + PTR_SIZE THEN value ELSE m[x]]

\* Comparator::compare on usize keys (a total order)
compare(a, b) == IF a < b THEN "Less" ELSE IF a = b THEN "Equal" ELSE "Greater"

\* ------------------------------------------------------------ insert

\* find_node_prev_next with the arguments of the comparison exchanged
find_node_prev_next_swapped(m, key, cur, level) ==
    LET next == get_next(m, cur, level)
    IN  IF next = NULL THEN [done |-> TRUE, prev |-> cur, next |-> NULL]
        ELSE LET c == compare(key, KeyAt(m, next))
             IN  IF c = "Less" THEN [done |-> FALSE, prev |-> next, next |-> NULL]
                 ELSE IF c = "Equal" THEN [done |-> TRUE, prev |-> next, next |-> next]
                 ELSE [done |-> TRUE, prev |-> cur, next |-> next]

\* find_node_prev_next that stops before an equal key as before a greater one
find_node_prev_next_dup(m, key, cur, level) ==
    LET next == get_next(m, cur, level)
    IN  IF next = NULL THEN [done |-> TRUE, prev |-> cur, next |-> NULL]
        ELSE LET c == compare(KeyAt(m, next), key)
             IN  IF c = "Less" THEN [done |-> FALSE, prev |-> next, next |-> NULL]
                 ELSE [done |-> TRUE, prev |-> cur, next |-> next]

\* one turn of the loop of find_node_prev_next: done with (prev, next), or
\* not done and prev is the node to go on from
find_node_prev_next(m, key, cur, level) ==
    LET next == get_next(m, cur, level)
    IN  IF next = NULL THEN [done |-> TRUE, prev |-> cur, next |-> NULL]
        ELSE LET c == compare(KeyAt(m, next), key)
             IN  IF c = "Less" THEN [done |-> FALSE, prev |-> next, next |-> NULL]
                 ELSE IF c = "Equal" THEN [done |-> TRUE, prev |-> next, next |-> next]
                 ELSE [done |-> TRUE, prev |-> cur, next |-> next]

\* the value a caller passes with its key: a tag no other call passes
FreshValue(k) == 10 * (1 + th[1].calls + th[2].calls) + k

\* insert, lines 183-187: the height is read and the top of prev is the head
InsertLocals(t, k) ==
    [IdleLocals EXCEPT
        !.pc = "find", !.caller = "insert", !.site = "search",
        !.key = k, !.value = FreshValue(k),
        !.prev_height = height, !.prev = [NoArray EXCEPT ![height] = head],
        !.level = height - 1, !.cur = head,
        !.calls = th[t].calls + 1]

\* the one writer of the tests calls insert(k, v): any key, present or not
InsertCall(t, k) ==
    /\ th[t].pc = "idle"
    /\ head # NULL
    /\ it.state = "none"
    /\ th[t].calls < MaxInserts
    /\ th' = [th EXCEPT ![t] = InsertLocals(t, k)]
    /\ UNCHANGED <<trackVars, arenaVars, listVars, it, allocs, reads, inserted>>

\* the key sets of concurrent writers are disjoint: odd keys and even keys
KeysOf(t) == {k \in Keys : k % 2 = t % 2}

KeysCalled ==
    {inserted[i].key : i \in 1 .. Len(inserted)}
        \cup {th[u].key : u \in {v \in Threads : th[v].caller = "insert"}}

\* a writer among several calls insert(k, v) with a key nobody passed before
InsertDistinctCall(t, k) ==
    /\ th[t].pc = "idle"
    /\ head # NULL
    /\ it.state = "none"
    /\ th[t].calls < MaxConcCalls
    /\ k \in KeysOf(t) \ KeysCalled
    /\ th' = [th EXCEPT ![t] = InsertLocals(t, k)]
    /\ UNCHANGED <<trackVars, arenaVars, listVars, it, allocs, reads, inserted>>

\* the locals at the top of the loop of line 209 for `level`
LinkAt(l, level) ==
    IF l.prev[level] = NULL
    THEN [l EXCEPT !.pc = "find", !.site = "lazy", !.level = level, !.cur = head]
    ELSE [l EXCEPT !.pc = "set_next", !.level = level]

\* insert without the loop of lines 195-203: the list height is never raised
AfterHeight_no_bump(l) == LinkAt(l, 0)

\* the locals after Node::new_in and after each failed exchange of the height
AfterHeight(l) == IF l.height > l.prev_height THEN [l EXCEPT !.pc = "cas_height"]
                  ELSE LinkAt(l, 0)

\* one turn of find_node_prev_next for the call site the thread is at:
\* the descent of lines 188-191 (with its assert_ne), the lazy fill of line 212,
\* the retry of line 227
Find(t) ==
    /\ th[t].pc = "find"
    /\ LET l == th[t]
           key == IF l.site = "search" THEN l.key ELSE KeyAt(mem, l.new_node_ptr)
           r == find_node_prev_next(mem, key, l.cur, l.level)
           got == [l EXCEPT !.prev[l.level] = r.prev, !.next[l.level] = r.next]
       IN  th' = [th EXCEPT ![t] =
                IF ~r.done THEN [l EXCEPT !.cur = r.prev]
                ELSE IF l.site # "search" THEN [got EXCEPT !.pc = "set_next"]
                ELSE IF r.prev = r.next THEN Panicked(t)
                ELSE IF l.level > 0
                     THEN [got EXCEPT !.level = l.level - 1, !.cur = r.prev]
                     ELSE [got EXCEPT !.pc = "random_height"]]
    /\ UNCHANGED <<trackVars, arenaVars, listVars, it, allocs, reads, inserted>>

\* random_height, get_layout and the call of the allocator
RandomHeight(t) ==
    /\ th[t].pc = "random_height"
    /\ \E h \in Heights :
         th' = [th EXCEPT ![t].pc = "borrow_mut", ![t].height = h,
                          ![t].size = get_layout_size(h), ![t].align = NODE_ALIGN]
    /\ UNCHANGED <<trackVars, arenaVars, listVars, it, allocs, reads, inserted>>

\* SkipList::new calls Node::new_head: a node of MAX_HEIGHT slots
NewCall(t) ==
    /\ th[t].pc = "idle"
    /\ head = NULL
    /\ \A u \in Threads : th[u].caller # "new"
    /\ th' = [th EXCEPT ![t] = [IdleLocals EXCEPT
                !.pc = "borrow_mut", !.caller = "new", !.height = MAX_HEIGHT,
                !.size = get_layout_size(MAX_HEIGHT), !.align = NODE_ALIGN]]
    /\ UNCHANGED <<trackVars, arenaVars, listVars, it, allocs, reads, inserted>>

\* Node::new_in, lines 46-52: the pointer is asserted non-null and aligned, the
\* node is written.  For the head, SkipList::new then stores head and height 1.
new_in(t) ==
    /\ th[t].pc = "new_in"
    /\ LET l == th[t]
           p == l.new_node_ptr
       IN  IF p = NULL \/ p % NODE_ALIGN # 0
           THEN /\ th' = [th EXCEPT ![t] = Panicked(t)]
                /\ UNCHANGED listVars
           ELSE /\ mem' = WriteNode(mem, p, l.key, l.value, l.height)
                /\ IF l.caller = "new"
                   THEN /\ head' = p
                        /\ height' = 1
                        /\ th' = [th EXCEPT ![t] = Idle(t)]
                   ELSE /\ th' = [th EXCEPT ![t] = AfterHeight(l)]
                        /\ UNCHANGED <<head, height>>
    /\ UNCHANGED <<trackVars, arenaVars, it, allocs, reads, inserted>>

\* lines 195-203, one turn: height.compare_exchange(prev_height, height)
CasHeight(t) ==
    /\ th[t].pc = "cas_height"
    /\ LET l == th[t]
       IN  IF height = l.prev_height
           THEN /\ height' = l.height
                /\ th' = [th EXCEPT ![t] = LinkAt(l, 0)]
           ELSE /\ th' = [th EXCEPT ![t] = AfterHeight([l EXCEPT !.prev_height = height])]
                /\ UNCHANGED height
    /\ UNCHANGED <<trackVars, arenaVars, mem, head, it, allocs, reads, inserted>>

\* line 216: new_node.set_next(level, next[level])
SetNext(t) ==
    /\ th[t].pc = "set_next"
    /\ LET l == th[t]
       IN  mem' = Wr(mem, TowerSlot(l.new_node_ptr, l.level), l.next[l.level])
    /\ th' = [th EXCEPT ![t].pc = "cas"]
    /\ UNCHANGED <<trackVars, arenaVars, head, height, it, allocs, reads, inserted>>

\* lines 218-230: prev[level].tower[level].compare_exchange(next[level], new_node);
\* after the last level insert returns
Cas(t) ==
    /\ th[t].pc = "cas"
    /\ LET l == th[t]
           slot == TowerSlot(l.prev[l.level], l.level)
       IN  IF Rd(mem, slot) = l.next[l.level]
           THEN /\ mem' = Wr(mem, slot, l.new_node_ptr)
                /\ IF l.level + 1 < l.height
                   THEN /\ th' = [th EXCEPT ![t] = LinkAt(l, l.level + 1)]
                        /\ UNCHANGED inserted
                   ELSE /\ th' = [th EXCEPT ![t] = Idle(t)]
                        /\ inserted' = Append(inserted,
                              [t |-> t, key |-> l.key, value |-> l.value,
                               height |-> l.height, node |-> l.new_node_ptr])
           ELSE /\ th' = [th EXCEPT ![t] = [l EXCEPT !.pc = "find", !.site = "retry",
                                                    !.cur = l.prev[l.level]]]
                /\ UNCHANGED <<mem, inserted>>
    /\ UNCHANGED <<trackVars, arenaVars, head, height, it, allocs, reads>>

\* ------------------------------------------------------------ teardown

\* the last owner lets go of the list (&mut self: no call is running, no iterator
\* holds it).  Drop for SkipList, lines 270-271: cur = (*head).get_next(0)
DropCall(t) ==
    /\ th[t].pc = "idle"
    /\ head # NULL
    /\ Quiescent
    /\ it.state = "none"
    /\ \A u \in Threads : th[u].caller # "drop"
    /\ th' = [th EXCEPT ![t] = [Idle(t) EXCEPT !.pc = "drop_loop", !.caller = "drop",
                                                !.cur = get_next(mem, head, 0)]]
    /\ UNCHANGED <<trackVars, arenaVars, listVars, it, allocs, reads, inserted>>

\* lines 272-276, one turn of `while cur.is_null()`: the body runs when cur is
\* null, and its (*cur).get_next(0) reads through the null pointer: the read
\* faults, or the build, entitled to take cur for non-null, never leaves the loop
\* or never enters it.  destroyed is the history of the nodes ptr::drop_in_place
\* was called on.
DropLoop(t) ==
    /\ th[t].pc = "drop_loop"
    /\ IF th[t].cur = NULL
       THEN \E outcome \in {"crashed", "hung", "drop_arena"} :
               th' = [th EXCEPT ![t].pc = outcome]
       ELSE th' = [th EXCEPT ![t].pc = "drop_arena"]
    /\ UNCHANGED <<trackVars, arenaVars, listVars, it, allocs, reads, inserted>>

\* the fields are dropped after Drop::drop returned: the arena frees its slabs
DropArena(t) ==
    /\ th[t].pc = "drop_arena"
    /\ mems' = << >>
    /\ th' = [th EXCEPT ![t].pc = "dropped"]
    /\ UNCHANGED <<trackVars, ptr, remaining_size, memory_usage, borrow, heap_top,
                   listVars, it, allocs, reads, inserted>>

\* ------------------------------------------------------------ find_near

\* a walk of find_near that does not end within this many turns runs for ever
\* (a chain that leads back into itself); no well-formed list needs as many
WalkFuel == 4 * MaxInserts + MAX_HEIGHT + 4
HUNG == 0 - 1

\* down_level!(): one level down and round the loop again
DownLevel(cur, level) == [done |-> FALSE, result |-> NULL, cur |-> cur, level |-> level - 1]
Return(p) == [done |-> TRUE, result |-> p, cur |-> NULL, level |-> 0]

\* lines 119-128: the forward pointer is null
find_near_null(hd, reverse, cur, level) ==
    IF level > 0 THEN DownLevel(cur, level)
    ELSE IF cur = hd \/ ~reverse THEN Return(NULL)
    ELSE Return(cur)

\* the Less arm returning the node before the gap instead of the one after it
find_near_less_before(hd, reverse, cur, next_ptr, level) ==
    IF level > 0 THEN DownLevel(cur, level)
    ELSE IF cur = hd THEN Return(NULL)
    ELSE Return(cur)

\* the Less arm without its down_level!()
find_near_less_no_descent(hd, reverse, cur, next_ptr, level) ==
    IF ~reverse THEN Return(next_ptr)
    ELSE IF cur = hd THEN Return(NULL)
    ELSE Return(cur)

\* lines 140-149: the key is Less than the next node's
find_near_less(hd, reverse, cur, next_ptr, level) ==
    IF level > 0 THEN DownLevel(cur, level)
    ELSE IF ~reverse THEN Return(next_ptr)
    ELSE IF cur = hd THEN Return(NULL)
    ELSE Return(cur)

\* the Equal arm taking every bound for an excluded one
find_near_equal_excluded(m, hd, included, reverse, cur, next_ptr, level) ==
    IF ~reverse THEN Return(get_next(m, next_ptr, 0))
    ELSE IF level > 0 THEN DownLevel(cur, level)
    ELSE IF cur = hd THEN Return(NULL)
    ELSE Return(cur)

\* the Equal arm without its down_level!()
find_near_equal_no_descent(m, hd, included, reverse, cur, next_ptr, level) ==
    IF included THEN Return(next_ptr)
    ELSE IF ~reverse THEN Return(get_next(m, next_ptr, 0))
    ELSE IF cur = hd THEN Return(NULL)
    ELSE Return(cur)

\* lines 151-163: the key is Equal to the next node's
find_near_equal(m, hd, included, reverse, cur, next_ptr, level) ==
    IF included THEN Return(next_ptr)
    ELSE IF ~reverse THEN Return(get_next(m, next_ptr, 0))
    ELSE IF level > 0 THEN DownLevel(cur, level)
    ELSE IF cur = hd THEN Return(NULL)
    ELSE Return(cur)

\* lines 117-170, one turn of the loop; key = HUNG stands for Bound::Unbounded
find_near_turn(m, hd, bound, key, reverse, cur, level) ==
    LET next_ptr == get_next(m, cur, level)
    IN  IF next_ptr = NULL THEN find_near_null(hd, reverse, cur, level)
        ELSE IF bound = "Unbounded"
             THEN [done |-> FALSE, result |-> NULL, cur |-> next_ptr, level |-> level]
        ELSE LET c == compare(key, KeyAt(m, next_ptr))
             IN  IF c = "Less" THEN find_near_less(hd, reverse, cur, next_ptr, level)
                 ELSE IF c = "Equal"
                      THEN find_near_equal(m, hd, bound = "Included", reverse,
                                           cur, next_ptr, level)
                 ELSE [done |-> FALSE, result |-> NULL, cur |-> next_ptr, level |-> level]

RECURSIVE find_near_loop(_, _, _, _, _, _, _, _)
find_near_loop(m, hd, bound, key, reverse, cur, level, fuel) ==
    IF fuel = 0 THEN HUNG
    ELSE LET r == find_near_turn(m, hd, bound, key, reverse, cur, level)
         IN  IF r.done THEN r.result
             ELSE find_near_loop(m, hd, bound, key, reverse, r.cur, r.level, fuel - 1)

\* find_near(bound, reverse) on the list as it stands
find_near(bound, key, reverse) ==
    IF bound = "Unbounded" /\ reverse THEN get_next(mem, head, 0)
    ELSE find_near_loop(mem, head, bound, key, reverse, head, height - 1, WalkFuel)

find_last == find_near("Unbounded", 0, FALSE)
find_first == find_near("Unbounded", 0, TRUE)

\* ------------------------------------------------------------ a reader beside a writer

\* a node with key k is linked at level 0: the level-0 chain in memory m holds it
RECURSIVE Published(_, _, _, _)
Published(m, p, k, fuel) ==
    IF p = NULL \/ fuel = 0 THEN FALSE
    ELSE KeyAt(m, p) = k \/ Published(m, get_next(m, p, 0), k, fuel - 1)

\* a reader calls seek(k) on its iterator: find_near(Included(k), false), lines
\* 90-92: cur = head, level = height() - 1.  published is history: whether the
\* key was linked at level 0 when the call began.
SeekCall(t, k) ==
    /\ th[t].pc = "idle"
    /\ head # NULL
    /\ th[t].calls < MaxConcCalls
    /\ th' = [th EXCEPT ![t] = [IdleLocals EXCEPT
                !.pc = "seek", !.caller = "seek", !.key = k,
                !.cur = head, !.level = height - 1,
                !.published = Published(mem, get_next(mem, head, 0), k, WalkFuel),
                !.calls = th[t].calls + 1]]
    /\ UNCHANGED <<trackVars, arenaVars, listVars, it, allocs, reads, inserted>>

\* one turn of the loop of find_near, lines 117-170: one load of a forward pointer
SeekTurn(t) ==
    /\ th[t].pc = "seek"
    /\ LET l == th[t]
           r == find_near_turn(mem, head, "Included", l.key, FALSE, l.cur, l.level)
       IN  th' = [th EXCEPT ![t] =
                IF r.done THEN [l EXCEPT !.pc = "sought", !.result = r.result]
                ELSE [l EXCEPT !.cur = r.cur, !.level = r.level]]
    /\ UNCHANGED <<trackVars, arenaVars, listVars, it, allocs, reads, inserted>>

\* the reader has looked at its cursor and goes on
SeekReturn(t) ==
    /\ th[t].pc = "sought"
    /\ th' = [th EXCEPT ![t] = Idle(t)]
    /\ UNCHANGED <<trackVars, arenaVars, listVars, it, allocs, reads, inserted>>

\* ------------------------------------------------------------ iterator

NoIter == [state |-> "none", cur |-> NULL, hist |-> << >>]

\* the iterator after a call that set the cursor to p; hist holds the calls
\* since the last seek, each with the cursor it left
Sought(op, key, p) ==
    IF p = HUNG THEN [it EXCEPT !.state = "hung"]
    ELSE [it EXCEPT !.cur = p, !.hist = <<[op |-> op, key |-> key, cur |-> p]>>]

Moved(op, key, p) ==
    IF p = HUNG THEN [it EXCEPT !.state = "hung"]
    ELSE [it EXCEPT !.cur = p,
                    !.hist = Append(it.hist, [op |-> op, key |-> key, cur |-> p])]

IterReady ==
    /\ Quiescent
    /\ it.state = "live"

\* next and prev are called while the calls since the last seek are few
MoveReady == IterReady /\ Len(it.hist) < MaxIterOps

\* SkipList::iter / SkipListIter::new
Iter ==
    /\ Quiescent
    /\ head # NULL
    /\ it.state = "none"
    /\ it' = [NoIter EXCEPT !.state = "live"]
    /\ UNCHANGED <<trackVars, arenaVars, listVars, th, allocs, reads, inserted>>

\* the iterator is dropped
IterDrop ==
    /\ it.state # "none"
    /\ it' = NoIter
    /\ UNCHANGED <<trackVars, arenaVars, listVars, th, allocs, reads, inserted>>

seek_to_first ==
    /\ IterReady
    /\ it' = Sought("seek_to_first", HUNG, find_first)
    /\ UNCHANGED <<trackVars, arenaVars, listVars, th, allocs, reads, inserted>>

seek_to_last ==
    /\ IterReady
    /\ it' = Sought("seek_to_last", HUNG, find_last)
    /\ UNCHANGED <<trackVars, arenaVars, listVars, th, allocs, reads, inserted>>

seek(k) ==
    /\ IterReady
    /\ it' = Sought("seek", k, find_near("Included", k, FALSE))
    /\ UNCHANGED <<trackVars, arenaVars, listVars, th, allocs, reads, inserted>>

\* SkipListIter::next: assert!(is_valid()), then the level-0 successor
next ==
    /\ MoveReady
    /\ it' = IF it.cur = NULL THEN [it EXCEPT !.state = "panicked"]
             ELSE Moved("next", HUNG, get_next(mem, it.cur, 0))
    /\ UNCHANGED <<trackVars, arenaVars, listVars, th, allocs, reads, inserted>>

\* SkipListIter::prev: assert!(is_valid()), then find_near(Excluded(key), true)
prev ==
    /\ MoveReady
    /\ it' = IF it.cur = NULL THEN [it EXCEPT !.state = "panicked"]
             ELSE Moved("prev", HUNG, find_near("Excluded", KeyAt(mem, it.cur), TRUE))
    /\ UNCHANGED <<trackVars, arenaVars, listVars, th, allocs, reads, inserted>>

\* ------------------------------------------------------------ specifications

\* BlockArena::new(); no list yet
Init ==
    /\ mem = [x \in {} |-> 0]
    /\ mems = << >>
    /\ ptr = DANGLING
    /\ remaining_size = 0
    /\ memory_usage = 0
    /\ borrow = UNUSED
    /\ heap_top = HeapStart
    /\ head = NULL
    /\ height = 0
    /\ th = [t \in Threads |-> IdleLocals]
    /\ it = NoIter
    /\ allocs = << >>
    /\ reads = << >>
    /\ inserted = << >>
    /\ da_mems = << >>
    /\ mem_alloc = 0

ArenaStep(t) ==
    \/ BorrowMut(t) \/ BorrowMutSet(t) \/ InnerAlloc(t) \/ ReloadBlock(t)
    \/ Bump(t) \/ DropRefMut(t)

UsageStep(t) == Borrow(t) \/ BorrowSet(t) \/ LoadUsage(t) \/ DropRef(t)

InsertStep(t) ==
    \/ Find(t) \/ RandomHeight(t) \/ new_in(t) \/ CasHeight(t) \/ SetNext(t) \/ Cas(t)

DropStep(t) == DropCall(t) \/ DropLoop(t) \/ DropArena(t)

IterStep ==
    \/ Iter \/ IterDrop \/ seek_to_first \/ seek_to_last \/ next \/ prev
    \/ \E k \in Keys : seek(k)

\* one thread builds a list, inserts into it and iterates over it
NextList ==
    \/ NewCall(1)
    \/ \E k \in Keys : InsertCall(1, k)
    \/ InsertStep(1)
    \/ ArenaStep(1)
    \/ IterStep
    \/ DropStep(1)

SpecList == Init /\ [][NextList]_vars

\* one thread allocates from an arena and reads its usage
NextArena ==
    \/ \E size \in Sizes, align \in Aligns : AllocCall(1, size, align)
    \/ MemoryUsageCall(1)
    \/ ArenaStep(1)
    \/ UsageStep(1)

SpecArena == Init /\ [][NextArena]_vars

\* a client calls BlockArena::alloc(layout), often enough to fill a slab
FillAllocCall(t, size, align) ==
    /\ th[t].pc = "idle"
    /\ th[t].calls < MaxFillAllocs
    /\ th' = [th EXCEPT ![t] = [IdleLocals EXCEPT
                !.pc = "borrow_mut", !.caller = "alloc",
                !.size = size, !.align = align, !.calls = th[t].calls + 1]]
    /\ UNCHANGED <<trackVars, arenaVars, listVars, it, allocs, reads, inserted>>

\* one thread fills the slabs of an arena
NextArenaFill ==
    \/ \E size \in FillSizes, align \in FillAligns : FillAllocCall(1, size, align)
    \/ ArenaStep(1)

SpecArenaFill == Init /\ [][NextArenaFill]_vars

\* the calls of a thread that runs beside another
ConcAllocCall(t, size, align) == th[t].calls < MaxConcCalls /\ AllocCall(t, size, align)
ConcMemoryUsageCall(t) == th[t].calls < MaxConcCalls /\ MemoryUsageCall(t)

\* two threads allocate from one arena and read its usage
NextArenaConc ==
    \E t \in Threads :
        \/ \E size \in ConcSizes, align \in ConcAligns : ConcAllocCall(t, size, align)
        \/ ConcMemoryUsageCall(t)
        \/ ArenaStep(t)
        \/ UsageStep(t)

SpecArenaConc == Init /\ [][NextArenaConc]_vars

\* two threads insert disjoint keys into one list; the list is iterated over
\* when both have joined
NextConc ==
    \/ NewCall(1)
    \/ \E t \in Threads :
        \/ \E k \in Keys : InsertDistinctCall(t, k)
        \/ InsertStep(t)
        \/ ArenaStep(t)
    \/ IterStep

SpecConc == Init /\ [][NextConc]_vars

TrackStep(t) == StdAlloc(t) \/ LockPush(t) \/ FetchAdd(t)

\* two threads insert disjoint keys into one list over a BlockArena, and each is
\* scheduled again and again while it has a step to take
NextWriters ==
    \/ NewCall(1)
    \/ \E t \in Threads :
        \/ \E k \in Keys : InsertDistinctCall(t, k)
        \/ InsertStep(t)
        \/ ArenaStep(t)

SpecWritersFair ==
    /\ Init /\ [][NextWriters]_vars
    /\ \A t \in Threads : WF_vars(InsertStep(t) \/ ArenaStep(t))

\* the same over a DefaultAllocator
NextTrackedWriters ==
    \/ NewCall(1)
    \/ \E t \in Threads :
        \/ \E k \in Keys : InsertDistinctCall(t, k)
        \/ InsertStep(t)
        \/ TrackStep(t)

SpecTrackedFair ==
    /\ Init /\ [][NextTrackedWriters]_vars
    /\ \A t \in Threads : WF_vars(InsertStep(t) \/ TrackStep(t))

SeekStep(t) == SeekTurn(t) \/ SeekReturn(t)

\* thread 1 builds the list and inserts into it while thread 2 seeks in it
NextReader ==
    \/ NewCall(1)
    \/ \E k \in Keys : InsertCall(1, k)
    \/ InsertStep(1)
    \/ ArenaStep(1)
    \/ \E k \in Keys : SeekCall(2, k)
    \/ SeekStep(2)

SpecReader == Init /\ [][NextReader]_vars

\* the same two writers with the list built over a DefaultAllocator
NextTracked ==
    \/ NewCall(1)
    \/ \E t \in Threads :
        \/ \E k \in Keys : InsertDistinctCall(t, k)
        \/ InsertStep(t)
        \/ TrackStep(t)
    \/ IterStep

SpecTracked == Init /\ [][NextTracked]_vars

\* ------------------------------------------------------------ what the histories say

InsertedKeys == {inserted[i].key : i \in 1 .. Len(inserted)}

\* the record of the insert that returned with key k
RecOf(k) == inserted[CHOOSE i \in 1 .. Len(inserted) : inserted[i].key = k]

\* how many inserted keys are less than k
Rank(k) == Cardinality({j \in InsertedKeys : j < k})

\* the cursor p is on the node the insert of key k made, and reads k and its value
OnNodeOf(p, k) ==
    /\ p = RecOf(k).node
    /\ KeyAt(mem, p) = k
    /\ ValueAt(mem, p) = RecOf(k).value

DistinctInserted ==
    \A i, j \in 1 .. Len(inserted) : i # j => inserted[i].key # inserted[j].key

\* the calls since the last seek are seek_to_first and then only next
IsScan == /\ it.state = "live"
          /\ Len(it.hist) >= 1
          /\ it.hist[1].op = "seek_to_first"
          /\ \A i \in 2 .. Len(it.hist) : it.hist[i].op = "next"

\* the cursor after seek_to_first and i-1 calls of next is on the i-th smallest
\* inserted key, and is invalid once every inserted key was visited
ScanInOrder ==
    \A i \in 1 .. Len(it.hist) :
        IF i <= Len(inserted)
        THEN \E k \in InsertedKeys : Rank(k) = i - 1 /\ OnNodeOf(it.hist[i].cur, k)
        ELSE it.hist[i].cur = NULL

\* the last call on the iterator was seek(k), or seek_to_last
SoughtKey(k) == /\ it.state = "live"
                /\ Len(it.hist) >= 1
                /\ it.hist[1].op = "seek"
                /\ it.hist[1].key = k

InsertPanicked(t) == th[t].pc = "panicked" /\ th[t].caller = "insert"

\* ------------------------------------------------------------ claims

\* C1: after N inserts of pairwise distinct keys by one thread, seek_to_first and
\* repeated next visit exactly the N inserted (key, value) pairs, each once, in
\* strictly ascending key order, and the cursor is invalid after exactly N next.
C1_ScanVisitsAllAscending ==
    (IsScan /\ ~InsertPanicked(1)) => (DistinctInserted /\ ScanInOrder)

\* a scan to the end of a list of three keys that were not inserted in order
C1_Witness ==
    /\ IsScan /\ ~InsertPanicked(1)
    /\ Len(inserted) = 3 /\ Len(it.hist) = 4
    /\ it.cur = NULL
    /\ inserted[1].key > inserted[2].key
    /\ inserted[2].height = 2

\* C2: for every inserted key k (distinct keys), seek(k) leaves a valid cursor
\* whose key is k and whose value is the value inserted with k, whatever the
\* heights and the insertion order.
C2_SeekFindsInserted ==
    \A k \in InsertedKeys :
        (SoughtKey(k) /\ Len(it.hist) = 1) =>
            (it.cur # NULL /\ it.cur = it.hist[1].cur /\ OnNodeOf(it.cur, k))

\* seek of the greatest of three keys, past a node two levels high
C2_Witness ==
    /\ Len(inserted) = 3
    /\ \E k \in InsertedKeys : SoughtKey(k) /\ Len(it.hist) = 1 /\ Rank(k) = 2
                               /\ OnNodeOf(it.cur, k)
    /\ \E i \in 1 .. 3 : inserted[i].height = 2 /\ Rank(inserted[i].key) = 1

C4_SeekToLastOnGreatest ==
    (it.state = "live" /\ Len(it.hist) = 1 /\ it.hist[1].op = "seek_to_last") =>
        IF inserted = << >> THEN it.cur = NULL
        ELSE \E k \in InsertedKeys : Rank(k) = Len(inserted) - 1 /\ OnNodeOf(it.cur, k)

\* C5: for a key k not in the list, seek(k) leaves an invalid cursor when k is
\* greater than every key in the list (or the list is empty), and otherwise a
\* valid cursor on the node with the least key greater than k.
C5_SeekMiss ==
    \A k \in Keys \ InsertedKeys :
        (SoughtKey(k) /\ Len(it.hist) = 1) =>
            IF \A j \in InsertedKeys : j < k THEN it.cur = NULL
            ELSE \E j \in InsertedKeys : /\ j > k
                                         /\ Rank(j) = Rank(k)
                                         /\ OnNodeOf(it.cur, j)

\* seek of the missing middle key lands on the greater of the two keys
C5_Witness ==
    /\ Len(inserted) = 2
    /\ \E k \in Keys \ InsertedKeys :
          /\ SoughtKey(k) /\ Len(it.hist) = 1
          /\ Rank(k) = 1
          /\ it.cur # NULL /\ KeyAt(mem, it.cur) > k
    /\ \E i \in 1 .. 2 : inserted[i].height = 2

\* C6: with distinct keys, after seek(k) on an inserted key k, prev moves the
\* cursor to the node with the greatest key less than k and a following next
\* returns it to k; if k is the smallest key prev leaves the cursor invalid, and
\* the head is never returned.
C6_PrevThenNext ==
    \A k \in InsertedKeys :
        (SoughtKey(k) /\ Len(it.hist) >= 2 /\ it.hist[2].op = "prev") =>
            /\ it.hist[2].cur # head
            /\ IF Rank(k) = 0 THEN it.hist[2].cur = NULL
               ELSE /\ \E j \in InsertedKeys : /\ j < k
                                               /\ Rank(j) = Rank(k) - 1
                                               /\ OnNodeOf(it.hist[2].cur, j)
                    /\ (Len(it.hist) >= 3 /\ it.hist[3].op = "next") =>
                           OnNodeOf(it.hist[3].cur, k)

\* seek of the greatest of three keys, two levels high, then prev, then next
C6_Witness ==
    /\ Len(inserted) = 3
    /\ \E k \in InsertedKeys :
          /\ SoughtKey(k) /\ Len(it.hist) = 3 /\ Rank(k) = 2
          /\ it.hist[2].op = "prev" /\ it.hist[3].op = "next"
          /\ RecOf(k).height = 2
          /\ OnNodeOf(it.cur, k)

\* C7: two threads insert pairwise distinct keys into one list; in every
\* interleaving all inserts return, and once both have joined a traversal from
\* seek_to_first visits exactly the inserted entries in ascending key order.
C7_ConcurrentInsertsAllKept ==
    /\ \A t \in Threads : th[t].pc # "panicked"
    /\ IsScan => (DistinctInserted /\ ScanInOrder)

\* the thread is inside BlockArenaInner::alloc, holding the RefMut
InInnerAlloc(t) == th[t].pc \in {"alloc", "reload", "bump", "drop_refmut"}

\* the byte ranges of two returned allocations share a byte
Overlap(a, b) == a.ptr < b.ptr + b.size /\ b.ptr < a.ptr + a.size

\* C8: the arena serialises its mutation: of two threads calling alloc on one
\* arena never both are inside the cursor / remaining-size / slab-vector update,
\* neither call fails, and the two returned byte ranges do not overlap.
C8_AllocSerialised ==
    /\ \A t, u \in Threads : (t # u) => ~(InInnerAlloc(t) /\ InInnerAlloc(u))
    /\ \A t \in Threads : ~(th[t].pc = "panicked" /\ th[t].caller = "alloc")
    /\ \A i, j \in 1 .. Len(allocs) : (i # j) => ~Overlap(allocs[i], allocs[j])

\* C9: memory_usage read by one thread while another is inside alloc on the same
\* arena returns normally, with a value the counter had.
C9_UsageReadableDuringAlloc ==
    /\ \A t \in Threads : ~(th[t].pc = "panicked" /\ th[t].caller = "memory_usage")
    /\ \A i \in 1 .. Len(reads) : reads[i].value <= memory_usage

\* C10: every pointer alloc(size, align) returns, on the bump path, the fresh-slab
\* path and the dedicated-slab path, is a multiple of align.
C10_PointersAligned ==
    \A i \in 1 .. Len(allocs) : allocs[i].ptr % allocs[i].align = 0

\* ------------------------------------------------------------ the arena alone

\* the call before the j-th that moved the cursor (0 if none did)
LastCarved(j) ==
    LET before == {i \in 1 .. (j - 1) : allocs[i].path # "big"}
    IN  IF before = {} THEN 0 ELSE CHOOSE i \in before : \A h \in before : h <= i

\* the j-th returned allocation follows a dedicated-slab one and was carved from
\* the open slab
CarvedAfterBig(j) == j >= 2 /\ allocs[j - 1].path = "big" /\ allocs[j].path = "bump"

\* it lies where the cursor stood before the big allocation, aligned up
WhereItWouldBe(j) ==
    /\ LastCarved(j) > 0
    /\ LET i == LastCarved(j)
       IN  allocs[j].ptr = align_up(allocs[i].ptr + allocs[i].size, allocs[j].align).aligned

\* the thread's next step in BlockArenaInner::alloc takes the big-object path
TakesBigPath(t) ==
    /\ th[t].pc = "alloc"
    /\ align_up(ptr, th[t].align).slop + th[t].size > NO_BLOCK_LIMIT

\* C11: an allocation whose slop + size exceeds NO_BLOCK_LIMIT (1024) is served
\* from a new dedicated slab of ceil(size / 8) * 8 bytes and leaves the cursor
\* and the remaining bytes unchanged, so the next small allocation is carved from
\* the open standard slab where it would have been without the big one.
C11_BigAllocLeavesCursor ==
    /\ [][\A t \in Threads : (TakesBigPath(t) /\ th'[t].pc = "drop_refmut") =>
            /\ ptr' = ptr
            /\ remaining_size' = remaining_size
            /\ Len(mems') = Len(mems) + 1
            /\ mems'[Len(mems')].len = alloc_new_block_len(th[t].size)
            /\ th'[t].result = mems'[Len(mems')].base]_vars
    /\ [](\A j \in 1 .. Len(allocs) : CarvedAfterBig(j) => WhereItWouldBe(j))

\* a small allocation, a big one, and a small one carved right behind the first
C11_Witness ==
    /\ Len(allocs) = 3
    /\ allocs[1].path = "fresh" /\ allocs[2].path = "big"
    /\ CarvedAfterBig(3) /\ WhereItWouldBe(3)
    /\ allocs[3].ptr = allocs[1].ptr + allocs[1].size

\* the sizes of the first n allocations handed out, summed
RECURSIVE SumSizes(_)
SumSizes(n) == IF n = 0 THEN 0 ELSE allocs[n].size + SumSizes(n - 1)

\* the byte length a slab is appended with by the step thread t is about to take
SlabLenDue(t) ==
    IF th[t].pc = "reload" THEN 4096
    ELSE IF TakesBigPath(t) THEN ((th[t].size + 7) \div 8) * 8
    ELSE 0

\* C12: memory_usage never decreases: each later reading is >= every earlier one,
\* it grows only by the byte length of a newly appended slab (4096 for a standard
\* slab, ceil(size/8)*8 for an oversize one), and it is always >= the sum of the
\* sizes of all allocations handed out so far.
C12_UsageMonotone ==
    /\ [][/\ memory_usage' >= memory_usage
          /\ (memory_usage' # memory_usage) =>
                /\ Len(mems') = Len(mems) + 1
                /\ memory_usage' - memory_usage = mems'[Len(mems')].len
                /\ \E t \in Threads : /\ th'[t] # th[t]
                                      /\ memory_usage' - memory_usage = SlabLenDue(t)]_vars
    /\ [](\A i, j \in 1 .. Len(reads) : (i < j) => reads[i].value <= reads[j].value)
    /\ [](\A i \in 1 .. Len(reads) : reads[i].value <= memory_usage)
    /\ [](memory_usage >= SumSizes(Len(allocs)))

\* usage read before and after an oversize allocation of 1030 bytes
C12_Witness ==
    /\ Len(reads) = 2 /\ Len(allocs) = 1
    /\ allocs[1].path = "big" /\ allocs[1].size = 1030
    /\ reads[1].value = 0 /\ reads[2].value = 1032
    /\ memory_usage = 1032

\* the returned range a lies entirely inside the slab s
InSlab(a, s) == s.base <= a.ptr /\ a.ptr + a.size <= s.base + s.len

SlabsOf(a) == {k \in 1 .. Len(mems) : InSlab(a, mems[k])}

\* the standard slabs, and the one opened last: the one the cursor is in
StandardSlabs == {k \in 1 .. Len(mems) : mems[k].len = BLOCK_SIZE * ITEM_SIZE}
OpenSlab == mems[CHOOSE k \in StandardSlabs : \A h \in StandardSlabs : h <= k]

\* C20: after any single-threaded sequence of alloc calls every returned range
\* [ptr, ptr + size) lies entirely inside exactly one slab of the arena, the
\* ranges of two distinct allocations are disjoint, and within the open standard
\* slab the cursor's offset plus the remaining bytes is the slab length (4096).
C20_RangesInSlabsDisjoint ==
    /\ \A i \in 1 .. Len(allocs) : Cardinality(SlabsOf(allocs[i])) = 1
    /\ \A i, j \in 1 .. Len(allocs) : (i # j) => ~Overlap(allocs[i], allocs[j])
    /\ (StandardSlabs # {}) =>
          /\ OpenSlab.base <= ptr
          /\ (ptr - OpenSlab.base) + remaining_size = 4096

\* three allocations: the first in a fresh slab, the second behind it after some
\* slop, the third in a dedicated slab
C20_Witness ==
    /\ Len(allocs) = 3 /\ Len(mems) = 2
    /\ allocs[1].path = "fresh" /\ allocs[2].path = "bump" /\ allocs[3].path = "big"
    /\ allocs[2].ptr > allocs[1].ptr + allocs[1].size
    /\ ptr = allocs[2].ptr + allocs[2].size
    /\ remaining_size < 4096

\* C19: whenever a request does not take the big-object path but does not fit
\* the remaining bytes, a fresh 4096-byte slab is opened and the footprint
\* recomputed against its base fits it, for every power-of-two alignment: the
\* assertion need <= remaining_size never fails.
C19_FreshNeedFits ==
    [][\A t \in Threads : (th[t].pc = "reload" /\ th'[t].pc # "reload") =>
            /\ th'[t].pc = "bump"
            /\ th'[t].need <= remaining_size']_vars

\* ------------------------------------------------------------ teardown of the list

\* the nodes of the level-0 chain behind p, in order
RECURSIVE Chain0(_, _)
Chain0(p, fuel) ==
    IF p = NULL \/ fuel = 0 THEN << >>
    ELSE <<p>> \o Chain0(get_next(mem, p, 0), fuel - 1)

\* C13: teardown of a list of N >= 0 inserted nodes walks the level-0 chain from
\* the head's successor while the current node is non-null and destroys each of
\* the N nodes exactly once, in level-0 order, before the arena memory is
\* released; it destroys nothing else and never dereferences a null pointer.
C13_TeardownDestroysEachNode ==
    \A t \in Threads : (th[t].caller = "drop") =>
        /\ th[t].pc \notin {"crashed", "hung"}
        /\ (th[t].pc \in {"drop_arena", "dropped"}) =>
              /\ th[t].destroyed = Chain0(get_next(mem, head, 0), WalkFuel)
              /\ Len(th[t].destroyed) = Len(inserted)

\* ------------------------------------------------------------ the list under writers

Levels == 0 .. (MAX_HEIGHT - 1)

\* the nodes behind p along the level-k forward pointers, in order; HUNG at the
\* end of a chain that does not end
RECURSIVE ChainAt(_, _, _)
ChainAt(p, k, fuel) ==
    IF p = NULL THEN << >>
    ELSE IF fuel = 0 THEN <<HUNG>>
    ELSE <<p>> \o ChainAt(get_next(mem, p, k), k, fuel - 1)

\* the chain of level k from the head
LevelChain(k) == ChainAt(get_next(mem, head, k), k, WalkFuel)

Reachable(k) == {LevelChain(k)[i] : i \in 1 .. Len(LevelChain(k))}

Ascending(c) ==
    /\ \A i \in 1 .. Len(c) : c[i] # HUNG
    /\ \A i, j \in 1 .. Len(c) : (i < j) => KeyAt(mem, c[i]) < KeyAt(mem, c[j])

\* C14: in every reachable state, also in the middle of one or several concurrent
\* insertions of distinct keys, the chain of nodes reachable from the head through
\* the level-k forward pointers is finite, acyclic and strictly ascending in key
\* order, for every level k.
C14_ChainsAscending ==
    (head # NULL) => \A k \in Levels : Ascending(LevelChain(k))

\* C16: the list height starts at 1, is changed only by a compare-and-swap inside
\* insert that strictly increases it, stays within [1, MAX_HEIGHT], and in every
\* reachable state, with writers racing on the bump, is >= the height of every
\* node reachable from the head at any level: no level at or above it is linked.
C16_HeightCoversLinkedLevels ==
    /\ [][(head # NULL) =>
            /\ height' >= height
            /\ (height' # height) =>
                  \E t \in Threads : /\ th[t].pc = "cas_height"
                                     /\ th[t].caller = "insert"
                                     /\ height = th[t].prev_height
                                     /\ height' = th[t].height
                                     /\ height' > height]_vars
    /\ []((head # NULL) =>
            /\ height >= 1 /\ height <= MAX_HEIGHT
            /\ \A k \in Levels : (k >= height) => LevelChain(k) = << >>)
    /\ [][(head = NULL /\ head' # NULL) => height' = 1]_vars

\* two writers drew height 2 while the list height was 1: one raised it and
\* linked its node at level 1, the other lost the exchange and goes on to link
C16_Witness ==
    /\ height = 2
    /\ LevelChain(1) # << >>
    /\ \E t \in Threads : /\ th[t].caller = "insert" /\ th[t].pc = "set_next"
                          /\ th[t].height = 2 /\ th[t].prev_height = 2
                          /\ th[t].prev[1] = head /\ th[t].prev[2] = NULL

\* the level-k chain from the head in the memory m
RECURSIVE ChainIn(_, _, _, _)
ChainIn(m, p, k, fuel) ==
    IF p = NULL THEN << >>
    ELSE IF fuel = 0 THEN <<HUNG>>
    ELSE <<p>> \o ChainIn(m, get_next(m, p, k), k, fuel - 1)

HeadChainIn(m, k) == ChainIn(m, get_next(m, head, k), k, WalkFuel)

\* the sequence c with its i-th element left out
Without(c, i) == SubSeq(c, 1, i - 1) \o SubSeq(c, i + 1, Len(c))

\* the chain `after` is the chain `before` with the node n spliced in
SplicedIn(before, after, n) ==
    \E i \in 1 .. Len(after) : after[i] = n /\ Without(after, i) = before

\* a writer past Node::new_in whose node is not yet linked at the levels from
\* `level` upwards
Linking(t) ==
    /\ th[t].caller = "insert"
    /\ th[t].new_node_ptr # NULL
    /\ th[t].pc \in {"cas_height", "find", "set_next", "cas"}

\* C15: under concurrent inserts a node reachable from the head at level k >= 1
\* is reachable at every level below k, and its own level-k forward pointer was
\* written before it became reachable at level k: a reader of any level sees the
\* chain before the splice or the chain after it, never a node whose slot at that
\* level is not yet set for this insertion.
C15_NoPartlyLinkedNode ==
    /\ []((head # NULL) =>
            \A k \in Levels : (k >= 1) => Reachable(k) \subseteq Reachable(k - 1))
    /\ []((head # NULL) =>
            \A t \in Threads : Linking(t) =>
                \A k \in Levels : (k >= th[t].level) => th[t].new_node_ptr \notin Reachable(k))
    /\ [][(head # NULL) =>
            \A k \in Levels : (HeadChainIn(mem', k) # HeadChainIn(mem, k)) =>
                \E t \in Threads :
                    /\ th[t].pc = "cas" /\ th[t].level = k
                    /\ get_next(mem, th[t].new_node_ptr, k) = th[t].next[k]
                    /\ get_next(mem', th[t].new_node_ptr, k) = th[t].next[k]
                    /\ SplicedIn(HeadChainIn(mem, k), HeadChainIn(mem', k),
                                 th[t].new_node_ptr)]_vars

\* ------------------------------------------------------------ a reader beside a writer

\* the seek of thread t ended on a node with the key it sought
EndedOnKey(t) == th[t].result # NULL /\ KeyAt(mem, th[t].result) = th[t].key

\* C17: for a reader beside a writer inserting a new key k, a seek(k) that starts
\* after the writer's level-0 compare-and-swap succeeded ends on the node with
\* key k, also while the node's higher levels are not yet linked, and a seek(k)
\* that finishes before that compare-and-swap does not end on a node with key k.
C17_SeekSeesPublished ==
    \A t \in Threads : (th[t].pc = "sought") =>
        /\ th[t].published =>
              /\ EndedOnKey(t)
              /\ \A w \in Threads : (th[w].caller = "insert" /\ th[w].key = th[t].key
                                     /\ th[w].new_node_ptr # NULL)
                                       => th[t].result = th[w].new_node_ptr
              /\ (th[t].key \in InsertedKeys) => th[t].result = RecOf(th[t].key).node
        /\ (~Published(mem, get_next(mem, head, 0), th[t].key, WalkFuel)) => ~EndedOnKey(t)

\* a seek that began after the level-0 link of the writer's node ended on that
\* node while the writer has still to link it at level 1, behind a greater key
\* two levels high
C17_Witness ==
    /\ th[2].pc = "sought" /\ th[2].published
    /\ th[1].caller = "insert" /\ th[1].pc = "cas" /\ th[1].level = 1
    /\ th[1].key = th[2].key
    /\ th[2].result = th[1].new_node_ptr
    /\ \E i \in 1 .. Len(inserted) : inserted[i].key > th[1].key /\ inserted[i].height = 2

\* ------------------------------------------------------------ progress of the writers

\* the node of a returned insert is linked at every level below its height
FullyLinked(rec) == \A k \in 0 .. (rec.height - 1) : rec.node \in Reachable(k)

\* C18: with finitely many concurrent insert calls on distinct keys and fair
\* scheduling of the threads every insert call eventually returns: the height
\* loop and every per-level compare-and-swap retry loop end, and a node linked at
\* level 0 ends up linked at every level 0 .. h-1 of its sampled height h.
C18_InsertsReturn ==
    /\ \A t \in Threads : (th[t].caller = "insert") ~> (th[t].pc = "idle")
    /\ [](\A i \in 1 .. Len(inserted) : FullyLinked(inserted[i]))

====
